---- MODULE Spec2Model ----
(***************************************************************************)
(* A model of the tag-based chatbot framework of HCIChatBot: the ChatBot  *)
(* engine (go_to_state, finish, respond, _get_tags, _check_tags) and its  *)
(* two concrete bots, CsStruggleBot (parentbot.py) and teendrugbot        *)
(* (teendrugbot.py).  Strings are TLA+ strings; a character is a string   *)
(* of length one, taken with SubSeq.                                      *)
(*                                                                         *)
(* Spec and SpecAPI follow one constructed bot through its calls: there   *)
(* bot is the name of its class, whose TAGS is the table as __init__ left *)
(* it.  SpecEngine follows a class from its class statement through the   *)
(* constructor and _get_tags: there bot is the class itself, a record of  *)
(* its name, STATES, TAGS and methods, and __init__ rewrites its TAGS.    *)
(***************************************************************************)
EXTENDS Bags, FiniteSets, Integers, Sequences, TLC

VARIABLES
  bot,        \* the class of the instance
  state,      \* self.state
  professor,  \* self.professor (CsStruggleBot)
  course,     \* self.course    (CsStruggleBot)
  drug,       \* self.drug      (teendrugbot)
  last        \* the last call made on the instance and what it did

vars == <<bot, state, professor, course, drug, last>>

----------------------------------------------------------------------------
(* Python values that are not strings.                                     *)

\* None, as the value of an attribute.
None == "<None>"

\* An attribute the class does not have.
NoAttr == "<no attribute>"

\* A call that raised returns nothing.
NoReturn == "<raised>"

\* No exception.
NoError == "none"

Bots == {"CsStruggleBot", "teendrugbot"}

----------------------------------------------------------------------------
(* Characters and str.lower().                                             *)

Char(s, i) == SubSeq(s, i, i)

UpperCase ==
  <<"A", "B", "C", "D", "E", "F", "G", "H", "I", "J", "K", "L", "M",
    "N", "O", "P", "Q", "R", "S", "T", "U", "V", "W", "X", "Y", "Z">>

LowerCase ==
  <<"a", "b", "c", "d", "e", "f", "g", "h", "i", "j", "k", "l", "m",
    "n", "o", "p", "q", "r", "s", "t", "u", "v", "w", "x", "y", "z">>

Digits == {"0", "1", "2", "3", "4", "5", "6", "7", "8", "9"}

\* The characters the regular expression class \w matches.
WordChars ==
  {UpperCase[i] : i \in 1..26} \cup {LowerCase[i] : i \in 1..26}
    \cup Digits \cup {"_"}

LowerChar(c) ==
  IF \E i \in 1..26 : UpperCase[i] = c
    THEN LowerCase[CHOOSE i \in 1..26 : UpperCase[i] = c]
    ELSE c

RECURSIVE lower(_)
lower(s) ==
  IF Len(s) = 0 THEN ""
  ELSE LowerChar(Char(s, 1)) \o lower(SubSeq(s, 2, Len(s)))

----------------------------------------------------------------------------
(* The phrase tables.  A Python dict literal that repeats a key keeps the  *)
(* key's first position and its last value; the tables below are the       *)
(* dicts the class statements build.  Every value of the source is a bare  *)
(* string.                                                                 *)

\* A table entry whose value is a bare tag string.
S(phrase, tag) == [phrase |-> phrase, tags |-> [kind |-> "str", val |-> tag]]

TAGS_CsStruggleBot ==
  <<
    S("fail", "failing"), S("failing", "failing"), S("help", "office-hours"),
    S("office hours", "office-hours"), S("kathryn", "kathryn"),
    S("leonard", "kathryn"), S("justin", "justin"), S("li", "justin"),
    S("jeff", "jeff"), S("miller", "jeff"), S("celia", "celia"),
    S("hsing-hau", "hsing-hau"), S("intro", "intro"),
    S("fundamentals", "intro"), S("comp 131", "intro"), S("131", "intro"),
    S("mathematica", "mathematica"), S("comp 165", "mathematica"),
    S("165", "mathematica"), S("data structures", "data structures"),
    S("comp 229", "data structures"), S("229", "structures"),
    S("computer organization", "computer organization"),
    S("comp 239", "computer"), S("239", "computer organization"),
    S("algorithms analysis", "algorithms analysis"),
    S("algorithms", "algorithms analysis"),
    S("analysis", "algorithms analysis"),
    S("comp 317", "algorithms analysis"), S("317", "algorithms analysis"),
    S("human computer interaction", "hci"), S("hci", "hci"),
    S("comp 340", "hci"), S("340", "hci"),
    S("computability and complexity", "c and c"), S("comp 352", "c and c"),
    S("352", "c and c"),
    S("computer science senior seminar", "senior seminar"),
    S("seminar", "senior seminar"), S("senior", "senior seminar"),
    S("comp 490", "senior seminar"), S("490", "senior seminar"),
    S("mobile apps", "mobile apps"), S("mobile", "mobile apps"),
    S("apps", "mobile apps"), S("information theory", "information theory"),
    S("info thoery", "information theory"),
    S("practicum in computer science", "practicum"),
    S("practicum", "practicum"), S("computer science practicum", "practicum"),
    S("cs practicum", "practicum"),
    S("computer science junior seminar", "junior seminar"),
    S("junior seminar", "junior seminar"),
    S("cs junior seminar", "junior seminar"), S("thanks", "thanks"),
    S("okay", "success"), S("bye", "success"), S("yes", "yes"),
    S("yep", "yes"), S("no", "no"), S("nope", "no"), S("hate", "negative"),
    S("dislike", "negative")
  >>
TAGS_teendrugbot ==
  <<
    S("red eyes", "weed"), S("bloodshot eyes", "weed"),
    S("slow reaction time", "weed"), S("slow reaction", "weed"),
    S("bad problem solving", "weed"), S("poor problem solving", "weed"),
    S("difficulty problem solving", "weed"),
    S("lose track of thoughts", "weed"), S("bad memory", "weed"),
    S("poor memory", "weed"), S("short term memory", "weed"),
    S("extreme hunger", "weed"), S("unusual hunger", "weed"),
    S("increasing eating", "weed"), S("eating more", "weed"),
    S("munchies", "weed"), S("silly", "weed"), S("giggly", "weed"),
    S("acting slow", "weed"), S("lethargic", "weed"), S("dazed", "weed"),
    S("confused", "weed"), S("420", "weed"), S("rolling paper", "weed"),
    S("bong", "weed"), S("decorative piece", "weed"), S("plants", "weed"),
    S("dried plant", "weed"), S("dried plants", "weed"), S("grinder", "weed"),
    S("oregano", "weed"), S("marijuana leaves", "weed"), S("devil", "weed"),
    S("devils lettuce", "weed"), S("grass", "weed"), S("cannabis", "weed"),
    S("blaze", "weed"), S("ganga", "weed"), S("joint", "weed"),
    S("blunt", "weed"), S("hemp", "weed"), S("headache", "addy"),
    S("hoarseness", "addy"), S("shaking", "alcohol"), S("shakiness", "addy"),
    S("tremors", "addy"), S("seizures", "addy"), S("adderall", "addy"),
    S("talkative", "cocaine"), S("excitable", "addy"),
    S("aggressive", "addy"), S("aggression", "addy"),
    S("appetite", "alcohol"), S("grooming", "alcohol"),
    S("hygeine", "alcohol"), S("slurred speech", "common"),
    S("bruises", "alcohol"), S("smell of alcohol", "alcohol"),
    S("smells of alcohol", "alcohol"), S("alcohol", "alcohol"),
    S("gum", "common"), S("arguments", "alcohol"), S("accidents", "alcohol"),
    S("isolated", "alcohol"), S("irritability", "alcohol"),
    S("outburst", "alcohol"), S("bottles", "alcohol"), S("bottle", "alcohol"),
    S("breath", "tobacco"), S("bad breath", "tobacco"), S("teeth", "tobacco"),
    S("yellow", "tobacco"), S("fingers", "tobacco"), S("wheezing", "tobacco"),
    S("smoke", "tobacco"), S("smokey", "tobacco"), S("windows", "tobacco"),
    S("burn", "tobacco"), S("burns", "tobacco"), S("fire", "tobacco"),
    S("lighter", "tobacco"), S("matches", "tobacco"), S("temper", "tobacco"),
    S("tobacco", "tobacco"), S("hyper", "cocaine"), S("pupils", "common"),
    S("nose", "opioid"), S("snort", "cocaine"), S("behavior", "common"),
    S("confidence", "cocaine"), S("powder", "cocaine"),
    S("hygeiene", "cocaine"), S("needle marks", "cocaine"),
    S("spoon", "opioid"), S("razor", "cocaine"), S("isolation", "cocaine"),
    S("dry mouth", "common"), S("tingling fingers", "lsd"),
    S("weakness", "lsd"), S("distress", "lsd"), S("anxiety", "lsd"),
    S("anxious", "lsd"), S("depression", "lsd"), S("depressed", "lsd"),
    S("disoriented", "opioid"), S("paranoid", "common"),
    S("convulsions", "lsd"), S("sweating", "lsd"), S("chills", "lsd"),
    S("vision", "lsd"), S("hallucinate", "lsd"), S("hallucinogen", "lsd"),
    S("hallucinating", "lsd"), S("seeing things", "lsd"),
    S("swings", "opioid"), S("droopy", "opioid"), S("needles", "opioid"),
    S("syringe", "opioid"), S("shoelaces", "opioid"), S("straws", "opioid"),
    S("pipe", "common"), S("marks", "opioid"), S("infection", "opioid"),
    S("cuts", "opioid"), S("scabs", "opioid"), S("picking", "opioid"),
    S("hygiene", "opioid"), S("motivation", "opioid"), S("hostile", "opioid"),
    S("self esteem", "opioid"), S("pants", "opioid"), S("sleeves", "opioid"),
    S("cough", "common"), S("fast heartbeat", "common"),
    S("rapid heartbeat", "common"), S("poor coordination", "common"),
    S("bad coordination", "common"), S("loss of motivation", "common"),
    S("no motivation", "common"), S("lack of motivation", "common"),
    S("no enthusiasm", "common"), S("loss of enthusiasm", "common"),
    S("lack of enthusiasm", "common"), S("paranoia", "common"),
    S("bag", "common"), S("pipes", "common"), S("baggies", "common"),
    S("small baggies", "common"), S("insence", "common"),
    S("air freshener", "common"), S("cologne", "common"),
    S("perfume", "common"), S("mouthwash", "common"), S("mints", "common"),
    S("towel", "common"), S("nausea", "common"), S("bad hygeiene", "common"),
    S("poor hygeine", "common"), S("bad personal grooming", "common"),
    S("poor personal grooming", "common"), S("stinky", "common"),
    S("smelly", "common"), S("smell", "common"), S("slurred", "common"),
    S("incoherent speech", "common"), S("missing school", "common"),
    S("grades", "common"), S("trouble", "common"), S("fights", "common"),
    S("interest", "common"), S("sleep", "common"), S("money", "money"),
    S("mood", "common"), S("weight", "common"), S("eat", "common,"),
    S("eating", "common"), S("dizzy", "common"), S("nauseous", "common"),
    S("heartrate", "common"), S("heart rate", "common"),
    S("withdrawn", "common"), S("yes", "yes"), S("yeah", "yes"),
    S("no", "no"), S("nope", "no"), S("thanks", "thanks"),
    S("thanks!", "thanks"), S("thank you", "thanks")
  >>


RawTAGS(b) ==
  IF b = "CsStruggleBot" THEN TAGS_CsStruggleBot ELSE TAGS_teendrugbot

\* _check_tags with a bare string made list(tags), its characters.
check_tags_CharList(table) ==
  LET norm(e) ==
        IF e.tags.kind = "str"
          THEN [e EXCEPT !.tags =
                  [kind |-> "list",
                   val |-> [i \in 1..Len(e.tags.val) |-> Char(e.tags.val, i)]]]
          ELSE e
  IN  [ok |-> TRUE, got |-> None,
       table |-> [i \in 1..Len(table) |-> norm(table[i])]]

\* _check_tags without its assertion: every value is accepted.
check_tags_NoAssert(table) ==
  [ok |-> TRUE, got |-> None,
   table |-> [i \in 1..Len(table) |->
                IF table[i].tags.kind = "str"
                  THEN [table[i] EXCEPT
                          !.tags = [kind |-> "list", val |-> <<table[i].tags.val>>]]
                  ELSE table[i]]]

\* _check_tags, phrase after phrase: a bare string becomes a one-element
\* list; the assertion then accepts tuples and lists only, and the first
\* value it rejects (got: the name of its class) ends the loop with the
\* phrases after it as they were.
check_tags(table) ==
  LET norm(e) ==
        IF e.tags.kind = "str"
          THEN [e EXCEPT !.tags = [kind |-> "list", val |-> <<e.tags.val>>]]
          ELSE e
      bad == {i \in 1..Len(table) :
                table[i].tags.kind \notin {"str", "tuple", "list"}}
      first == IF bad = {} THEN Len(table) + 1
               ELSE CHOOSE i \in bad : \A j \in bad : i <= j
  IN  [ok    |-> bad = {},
       got   |-> IF bad = {} THEN None ELSE table[first].tags.kind,
       table |-> [i \in 1..Len(table) |->
                    IF i < first THEN norm(table[i]) ELSE table[i]]]

\* The class attribute TAGS once __init__ has run _check_tags.
TAGS(b) == check_tags(RawTAGS(b)).table

----------------------------------------------------------------------------
(* _get_tags: re.search(r'\b' + phrase.lower() + r'\b', message.lower()).  *)
(* The phrase is placed in the pattern as it is, so re reads it as a       *)
(* regular expression: '.' stands for any character, '*' and '+' repeat    *)
(* what precedes them, '(' and ')' group.  The expressions read here are   *)
(* sequences of characters and '.', each followed by at most one '*' or    *)
(* '+', with parentheses that matter only when they do not balance; no     *)
(* phrase tried holds '?', '|', '[', '{', '^', '$' or a backslash.         *)

\* \b before position k of msg (k = Len(msg) + 1: at the end): exactly one
\* of the characters around it is a word character.
WordBoundary(msg, k) ==
  (k > 1 /\ Char(msg, k - 1) \in WordChars)
    # (k <= Len(msg) /\ Char(msg, k) \in WordChars)

\* re.compile reading the phrase from position i, inside depth open
\* groups, after prev ("start": the \b before the phrase, "open": a '(',
\* "rep": a repetition, "atom": anything else): the re.error it raises.
RECURSIVE re_scan(_, _, _, _)
re_scan(phrase, i, depth, prev) ==
  IF i > Len(phrase)
    THEN IF depth > 0
           THEN "re.error: missing ), unterminated subpattern"
           ELSE NoError
    ELSE LET c == Char(phrase, i)
         IN  CASE c = "(" -> re_scan(phrase, i + 1, depth + 1, "open")
               [] c = ")" ->
                    IF depth = 0
                      THEN "re.error: unbalanced parenthesis"
                      ELSE re_scan(phrase, i + 1, depth - 1, "atom")
               [] c \in {"*", "+"} ->
                    IF prev \in {"start", "open"}
                      THEN "re.error: nothing to repeat"
                      ELSE IF prev = "rep"
                             THEN "re.error: multiple repeat"
                             ELSE re_scan(phrase, i + 1, depth, "rep")
               [] OTHER -> re_scan(phrase, i + 1, depth, "atom")

re_error(phrase) == re_scan(phrase, 1, 0, "start")

\* The items of a phrase that compiles: each a character (or '.') and how
\* often it stands: "1", "*" or "+".
RECURSIVE re_items(_, _)
re_items(phrase, i) ==
  IF i > Len(phrase) THEN <<>>
  ELSE IF Char(phrase, i) \in {"(", ")"} THEN re_items(phrase, i + 1)
  ELSE LET rep == IF i < Len(phrase) /\ Char(phrase, i + 1) \in {"*", "+"}
                    THEN Char(phrase, i + 1)
                    ELSE "1"
       IN  <<[atom |-> Char(phrase, i), rep |-> rep]>>
             \o re_items(phrase, IF rep = "1" THEN i + 1 ELSE i + 2)

\* The character at position k of msg is one the item stands for.
re_atom(item, msg, k) ==
  k <= Len(msg) /\ (item.atom = "." \/ item.atom = Char(msg, k))

\* The items from the j-th on match msg from position k up to a \b.
RECURSIVE re_match(_, _, _, _), re_star(_, _, _, _)
re_match(items, msg, j, k) ==
  IF j > Len(items) THEN WordBoundary(msg, k)
  ELSE CASE items[j].rep = "1" ->
              re_atom(items[j], msg, k) /\ re_match(items, msg, j + 1, k + 1)
         [] items[j].rep = "*" -> re_star(items, msg, j, k)
         [] items[j].rep = "+" ->
              re_atom(items[j], msg, k) /\ re_star(items, msg, j, k + 1)

\* Item j any number of times from position k, then the items after it.
re_star(items, msg, j, k) ==
  \/ re_match(items, msg, j + 1, k)
  \/ re_atom(items[j], msg, k) /\ re_star(items, msg, j, k + 1)

\* bool(re.search(r'\b' + phrase + r'\b', msg)) for a phrase that compiles.
re_search(phrase, msg) ==
  LET items == re_items(phrase, 1)
  IN  \E i \in 1..(Len(msg) + 1) :
        WordBoundary(msg, i) /\ re_match(items, msg, 1, i)

\* The elements Counter.update iterates: those of a list, or the
\* characters of a string.
Elements(tags) ==
  IF tags.kind = "str"
    THEN [i \in 1..Len(tags.val) |-> Char(tags.val, i)]
    ELSE tags.val

\* Counter.update made a set: each element counted once at most.
RECURSIVE CounterUpdate_Once(_, _)
CounterUpdate_Once(counter, elems) ==
  IF elems = <<>> THEN counter
  ELSE CounterUpdate_Once(
         IF BagIn(Head(elems), counter) THEN counter
         ELSE counter (+) SetToBag({Head(elems)}),
         Tail(elems))

RECURSIVE CounterUpdate(_, _)
CounterUpdate(counter, elems) ==
  IF elems = <<>> THEN counter
  ELSE CounterUpdate(counter (+) SetToBag({Head(elems)}), Tail(elems))

\* The entries of the table whose phrase is found in msg, in table order.
Matching(table, msg) ==
  SelectSeq(table, LAMBDA e : re_search(lower(e.phrase), msg))

RECURSIVE UpdateAll(_, _)
UpdateAll(counter, entries) ==
  IF entries = <<>> THEN counter
  ELSE UpdateAll(CounterUpdate(counter, Elements(Head(entries).tags)),
                 Tail(entries))

\* The Counter _get_tags builds from a table whose phrases all compile.
count_tags(table, message) ==
  UpdateAll(EmptyBag, Matching(table, lower(message)))

get_tags(b, message) == count_tags(TAGS(b), message)

\* `tag in tags` on a Counter.
In(tag, tags) == BagIn(tag, tags)

----------------------------------------------------------------------------
(* The two classes: STATES, the default state, and the methods each        *)
(* defines (what getattr finds).                                           *)

STATES(b) ==
  IF b = "CsStruggleBot"
    THEN <<"waiting", "unknown_problem", "indentified_problem", "failing",
           "specific_class", "offer_solution", "spring2018">>
    ELSE <<"waiting", "common_symptom", "common_symptom_2",
           "common_symptom_3", "common_symptom_4", "common_symptom_5",
           "common_symptom_6", "common_symptom_7", "identified_drug">>

StateSet(b) == {STATES(b)[i] : i \in 1..Len(STATES(b))}

\* The argument each __init__ passes to ChatBot.__init__.
default_state(b) == "waiting"

PROFESSORS == <<"celia", "hsing-hau", "jeff", "justin", "kathryn">>

\* The on_enter_*, respond_from_* and finish_* methods of each class.
Methods(b) ==
  IF b = "CsStruggleBot"
    THEN {"respond_from_waiting",
          "on_enter_specific_faculty", "respond_from_specific_faculty",
          "on_enter_failing", "on_enter_specific_class",
          "on_enter_spring2018",
          "on_enter_unknown_faculty", "respond_from_unknown_faculty",
          "on_enter_unrecognized_faculty",
          "respond_from_unrecognized_faculty",
          "finish_confused", "finish_location", "finish_success",
          "finish_fail", "finish_thanks"}
    ELSE {"respond_from_waiting",
          "on_enter_identified_drug", "respond_from_identified_drug",
          "on_enter_common_symptom", "respond_from_common_symptom",
          "on_enter_common_symptom_2", "respond_from_common_symptom_2",
          "on_enter_common_symptom_3", "respond_from_common_symptom_3",
          "on_enter_common_symptom_4", "respond_from_common_symptom_4",
          "on_enter_common_symptom_5", "respond_from_common_symptom_5",
          "on_enter_common_symptom_6", "respond_from_common_symptom_6",
          "on_enter_common_symptom_7", "respond_from_common_symptom_7",
          "finish_success", "finish_fail", "finish_thanks"}

\* hasattr(self, name), for the names the engine builds.
hasattr(b, name) == name \in Methods(b)

----------------------------------------------------------------------------
(* Calls.  A call takes the session (the instance's fields) and gives a   *)
(* result: the session after the call, the text returned (NoReturn when   *)
(* it raised), the exception, and the log of what ran, each entry with    *)
(* the value self.state had when it ran.                                   *)

Session == [state |-> state, professor |-> professor, course |-> course,
            drug |-> drug]

Event(ev, arg, ses) == [ev |-> ev, arg |-> arg, at |-> ses.state]

Return(ses, text, log) ==
  [ses |-> ses, ret |-> text, err |-> NoError, log |-> log]

Raise(ses, err, log) ==
  [ses |-> ses, ret |-> NoReturn, err |-> err, log |-> log]

\* The exceptions of the engine.
UnknownState(name) ==
  "AssertionError: ERROR: state '" \o name \o "' is not defined"

InvalidTransition ==
  "AssertionError: WARNING: do not call go_to_state on the default state"

NoSuchMethod(name) == "AttributeError: no attribute '" \o name \o "'"

NoneHasNoAttribute(name) ==
  "AttributeError: 'NoneType' object has no attribute '" \o name \o "'"

KeyError(key) == "KeyError: '" \o key \o "'"

----------------------------------------------------------------------------
(* The texts the producers return.  A text of several sentences is cut    *)
(* after its first sentence.                                               *)

UpperChar(c) ==
  IF \E i \in 1..26 : LowerCase[i] = c
    THEN UpperCase[CHOOSE i \in 1..26 : LowerCase[i] = c]
    ELSE c

\* str.capitalize()
capitalize(s) ==
  IF Len(s) = 0 THEN ""
  ELSE UpperChar(Char(s, 1)) \o lower(SubSeq(s, 2, Len(s)))

office_hours ==
  [celia |-> "F 12-1:45pm; F 2:45-4:00pm",
   hsing_hau |-> "T 1-2:30pm; Th 10:30am-noon",
   jeff |-> "unknown",
   justin |-> "T 1-2pm; W noon-1pm; F 3-4pm",
   kathryn |-> "MWF 4-5pm"]

office ==
  [celia |-> "Swan 216", hsing_hau |-> "Swan 302", jeff |-> "Fowler 321",
   justin |-> "Swan B102", kathryn |-> "Swan B101"]

\* The key of a professor in the two records above (a record field cannot
\* hold a hyphen).
FieldOf(p) == IF p = "hsing-hau" THEN "hsing_hau" ELSE p

IsProfessor(p) == \E i \in 1..Len(PROFESSORS) : PROFESSORS[i] = p

finish_confused_text ==
  "Sorry, I'm just a simple bot that understands a few things."

finish_success_text == "Great, let me know if you need anything else!"

finish_thanks_text == "You're welcome!"

finish_fail_text(b) ==
  IF b = "CsStruggleBot"
    THEN "I've tried my best but I still don't understand. Maybe try asking other students?"
    ELSE "I've tried my best but I still don't understand. Maybe try asking a human health professional?"

\* self.finish_<manner>(), for a manner the class defines.
finish_producer(b, manner, ses) ==
  LET log == <<Event("finish_producer", manner, ses)>> IN
  CASE manner = "confused" -> Return(ses, finish_confused_text, log)
    [] manner = "success"  -> Return(ses, finish_success_text, log)
    [] manner = "thanks"   -> Return(ses, finish_thanks_text, log)
    [] manner = "fail"     -> Return(ses, finish_fail_text(b), log)
    [] manner = "location" ->
         IF ses.professor = None
           THEN Raise(ses, NoneHasNoAttribute("capitalize"), log)
         ELSE IF ~IsProfessor(ses.professor)
           THEN Raise(ses, KeyError(ses.professor), log)
         ELSE Return(ses,
                capitalize(ses.professor) \o "'s office is in "
                  \o office[FieldOf(ses.professor)],
                log)

on_enter_identified_drug(b, ses) ==
  LET log == <<Event("on_enter", "identified_drug", ses)>> IN
  CASE ses.drug = "weed" ->
         Return(ses, "Sounds like your kid is using marijuana. Is it legal in your state?", log)
    [] ses.drug = "alcohol" ->
         Return(ses, "Seems like your kid is using alcohol.", log)
    [] ses.drug = "cocaine" ->
         Return(ses, "Seems like your kid is using cocaine.", log)
    [] ses.drug = "tobacco" ->
         Return(ses, "Sounds like your kid is using tobacco!!", log)
    [] ses.drug = "addy" ->
         Return(ses, "Sounds like your kid is using Adderall recreationally!", log)
    [] ses.drug = "lsd" ->
         Return(ses, "Sounds like your kid is using hallucinogens.", log)
    [] OTHER ->
         LET f == finish_producer(b, "fail", ses)
         IN  [f EXCEPT !.log = log \o f.log]

on_enter_specific_faculty(b, ses) ==
  LET log == <<Event("on_enter", "specific_faculty", ses)>> IN
  IF ses.professor = None
    THEN Raise(ses, NoneHasNoAttribute("capitalize"), log)
  ELSE IF ~IsProfessor(ses.professor)
    THEN Raise(ses, KeyError(ses.professor), log)
  ELSE Return(ses,
         capitalize(ses.professor) \o "'s office hours are "
           \o office_hours[FieldOf(ses.professor)],
         log)

on_enter_text(name) ==
  CASE name = "failing" -> "Which course are you currently failing?"
    [] name = "specific_class" ->
         "You should get in touch with your professor. Do you know when their office hours are?"
    [] name = "spring2018" ->
         "I'm sorry, I can only help you with courses offered this semester."
    [] name = "unknown_faculty" ->
         "Who's office hours are you looking for?"
    [] name = "unrecognized_faculty" ->
         "I'm not sure I understand - are you looking for Celia, Hsing-hau, Jeff, Justin, or Kathryn?"
    [] name = "common_symptom" ->
         "Sorry, I'll need a bit more information to determine what kind of drug your teen is experimenting with."
    [] name = "common_symptom_2" ->
         "Is your teen being overly talkative and unusually excitable?"
    [] name = "common_symptom_3" ->
         "Is your teen getting into fights and unable to do complex tasks?"
    [] name = "common_symptom_4" ->
         "Have you noticed your teen coughing/wheezing a lot or if they have stained/yellow fingers?"
    [] name = "common_symptom_5" ->
         "Has your teen been getting frequent nose bleeds or often have a runny nose?"
    [] name = "common_symptom_6" ->
         "Has your teen been hallucinating and seeing things that aren't there?"
    [] name = "common_symptom_7" ->
         "Have you noticed any injection marks on your teen?"

\* self.on_enter_<name>(), for a name the class defines a producer for.
on_enter(b, name, ses) ==
  CASE name = "identified_drug"  -> on_enter_identified_drug(b, ses)
    [] name = "specific_faculty" -> on_enter_specific_faculty(b, ses)
    [] OTHER ->
         Return(ses, on_enter_text(name), <<Event("on_enter", name, ses)>>)

----------------------------------------------------------------------------
(* The engine: go_to_state and finish.                                     *)

\* go_to_state without its second assertion.
go_to_state_NoDefaultCheck(b, ses, name) ==
  LET call == <<Event("go_to_state", name, ses)>> IN
  IF name \notin StateSet(b)
    THEN Raise(ses, UnknownState(name), call)
  ELSE IF ~hasattr(b, "on_enter_" \o name)
    THEN Raise(ses, NoSuchMethod("on_enter_" \o name), call)
  ELSE LET r == on_enter(b, name, ses) IN
       IF r.err # NoError
         THEN [r EXCEPT !.log = call \o r.log]
         ELSE Return([r.ses EXCEPT !.state = name], r.ret, call \o r.log)

\* go_to_state without its first assertion.
go_to_state_NoMembershipCheck(b, ses, name) ==
  LET call == <<Event("go_to_state", name, ses)>> IN
  IF name = default_state(b)
    THEN Raise(ses, InvalidTransition, call)
  ELSE IF ~hasattr(b, "on_enter_" \o name)
    THEN Raise(ses, NoSuchMethod("on_enter_" \o name), call)
  ELSE LET r == on_enter(b, name, ses) IN
       IF r.err # NoError
         THEN [r EXCEPT !.log = call \o r.log]
         ELSE Return([r.ses EXCEPT !.state = name], r.ret, call \o r.log)

\* go_to_state that returns the text and forgets `self.state = state`.
go_to_state_StateNotSet(b, ses, name) ==
  LET call == <<Event("go_to_state", name, ses)>> IN
  IF name \notin StateSet(b)
    THEN Raise(ses, UnknownState(name), call)
  ELSE IF name = default_state(b)
    THEN Raise(ses, InvalidTransition, call)
  ELSE IF ~hasattr(b, "on_enter_" \o name)
    THEN Raise(ses, NoSuchMethod("on_enter_" \o name), call)
  ELSE LET r == on_enter(b, name, ses) IN
       IF r.err # NoError
         THEN [r EXCEPT !.log = call \o r.log]
         ELSE Return(r.ses, r.ret, call \o r.log)

\* go_to_state that sets self.state before it looks up and calls the
\* producer.
go_to_state_StateFirst(b, ses, name) ==
  LET call == <<Event("go_to_state", name, ses)>>
      set  == [ses EXCEPT !.state = name]
  IN
  IF name \notin StateSet(b)
    THEN Raise(ses, UnknownState(name), call)
  ELSE IF name = default_state(b)
    THEN Raise(ses, InvalidTransition, call)
  ELSE IF ~hasattr(b, "on_enter_" \o name)
    THEN Raise(set, NoSuchMethod("on_enter_" \o name), call)
  ELSE LET r == on_enter(b, name, set) IN
       IF r.err # NoError
         THEN [r EXCEPT !.log = call \o r.log]
         ELSE Return(r.ses, r.ret, call \o r.log)

go_to_state(b, ses, name) ==
  LET call == <<Event("go_to_state", name, ses)>> IN
  IF name \notin StateSet(b)
    THEN Raise(ses, UnknownState(name), call)
  ELSE IF name = default_state(b)
    THEN Raise(ses, InvalidTransition, call)
  ELSE IF ~hasattr(b, "on_enter_" \o name)
    THEN Raise(ses, NoSuchMethod("on_enter_" \o name), call)
  ELSE LET r == on_enter(b, name, ses) IN
       IF r.err # NoError
         THEN [r EXCEPT !.log = call \o r.log]
         ELSE Return([r.ses EXCEPT !.state = name], r.ret, call \o r.log)

\* finish that sets self.state before it looks up the producer.
finish_ResetFirst(b, ses, manner) ==
  LET call  == <<Event("finish", manner, ses)>>
      reset == [ses EXCEPT !.state = default_state(b)]
  IN
  IF ~hasattr(b, "finish_" \o manner)
    THEN Raise(reset, NoSuchMethod("finish_" \o manner), call)
  ELSE LET r == finish_producer(b, manner, reset) IN
       IF r.err # NoError
         THEN [r EXCEPT !.log = call \o r.log]
         ELSE Return(r.ses, r.ret, call \o r.log)

finish(b, ses, manner) ==
  LET call == <<Event("finish", manner, ses)>> IN
  IF ~hasattr(b, "finish_" \o manner)
    THEN Raise(ses, NoSuchMethod("finish_" \o manner), call)
  ELSE LET r == finish_producer(b, manner, ses) IN
       IF r.err # NoError
         THEN [r EXCEPT !.log = call \o r.log]
         ELSE Return([r.ses EXCEPT !.state = default_state(b)], r.ret,
                     call \o r.log)

----------------------------------------------------------------------------
(* CsStruggleBot's respond_from_* methods.                                 *)

\* The first professor of PROFESSORS whose tag is present, or None: the
\* loop `for professor in self.PROFESSORS: if professor in tags`.
FirstProfessor(tags) ==
  IF \E i \in 1..Len(PROFESSORS) : In(PROFESSORS[i], tags)
    THEN PROFESSORS[CHOOSE i \in 1..Len(PROFESSORS) :
                      /\ In(PROFESSORS[i], tags)
                      /\ \A j \in 1..(i - 1) : ~In(PROFESSORS[j], tags)]
    ELSE None

cs_respond_from_waiting(b, ses, message, tags) ==
  LET s1 == [ses EXCEPT !.professor = None] IN
  IF In("failing", tags)
    THEN go_to_state(b, s1, "failing")
  ELSE IF \/ In("intro", tags) \/ In("mathematica", tags)
          \/ In("data structures", tags)
          \/ In("computer organization", tags)
          \/ In("algorithms analysis", tags) \/ In("hci", tags)
    THEN go_to_state(b, s1, "specific_class")
  ELSE IF \/ In("mobile apps", tags) \/ In("information theory", tags)
          \/ In("practicum", tags) \/ In("junior seminar", tags)
    THEN go_to_state(b, s1, "spring2018")
  ELSE IF In("office-hours", tags)
    THEN IF FirstProfessor(tags) # None
           THEN go_to_state(b, [s1 EXCEPT !.professor = FirstProfessor(tags)],
                            "specific_faculty")
           ELSE go_to_state(b, s1, "unknown_faculty")
  ELSE IF In("thanks", tags)
    THEN finish(b, s1, "thanks")
  ELSE finish(b, s1, "confused")

cs_respond_from_specific_faculty(b, ses, message, tags) ==
  IF In("yes", tags) THEN finish(b, ses, "success")
  ELSE finish(b, ses, "location")

cs_respond_from_unknown_faculty(b, ses, message, tags) ==
  IF FirstProfessor(tags) # None
    THEN go_to_state(b, [ses EXCEPT !.professor = FirstProfessor(tags)],
                     "specific_faculty")
    ELSE go_to_state(b, ses, "unrecognized_faculty")

cs_respond_from_unrecognized_faculty(b, ses, message, tags) ==
  IF FirstProfessor(tags) # None
    THEN go_to_state(b, [ses EXCEPT !.professor = FirstProfessor(tags)],
                     "specific_faculty")
    ELSE finish(b, ses, "fail")

----------------------------------------------------------------------------
(* teendrugbot's respond_from_* methods.                                   *)

\* respond_from_waiting leaving self.drug as it set it at first.
WaitingDrug_Unknown(tags) == "unknown"

\* The chain of `if` statements of respond_from_waiting: the last test
\* that succeeds sets self.drug.
WaitingDrug(tags) ==
  IF In("addy", tags) THEN "addy"
  ELSE IF In("tobacco", tags) THEN "tobacco"
  ELSE IF In("lsd", tags) THEN "lsd"
  ELSE IF In("weed", tags) THEN "weed"
  ELSE IF In("cocaine", tags) THEN "cocaine"
  ELSE IF In("alcohol", tags) THEN "alcohol"
  ELSE "unknown"

\* respond_from_waiting without its last else: a message with none of the
\* tags it asks for falls off the end of the method, which returns None.
teen_respond_from_waiting_NoElse(b, ses, message, tags) ==
  LET s1 == [ses EXCEPT !.drug = "unknown"] IN
  IF \/ In("alcohol", tags) \/ In("cocaine", tags) \/ In("weed", tags)
     \/ In("lsd", tags) \/ In("tobacco", tags) \/ In("addy", tags)
    THEN go_to_state(b, [s1 EXCEPT !.drug = WaitingDrug(tags)],
                     "identified_drug")
  ELSE IF In("common", tags)
    THEN go_to_state(b, s1, "common_symptom")
  ELSE IF In("thanks", tags)
    THEN finish(b, s1, "thanks")
  ELSE Return(s1, None, <<>>)

teen_respond_from_waiting(b, ses, message, tags) ==
  LET s1 == [ses EXCEPT !.drug = "unknown"] IN
  IF \/ In("alcohol", tags) \/ In("cocaine", tags) \/ In("weed", tags)
     \/ In("lsd", tags) \/ In("tobacco", tags) \/ In("addy", tags)
    THEN go_to_state(b, [s1 EXCEPT !.drug = WaitingDrug(tags)],
                     "identified_drug")
  ELSE IF In("common", tags)
    THEN go_to_state(b, s1, "common_symptom")
  ELSE IF In("thanks", tags)
    THEN finish(b, s1, "thanks")
  ELSE go_to_state(b, s1, "common_symptom")

\* A method that returns a text of its own, calling nothing.
Say(ses, text) == Return(ses, text, <<>>)

\* respond_from_identified_drug ending the conversation through finish
\* where the method calls finish_thanks and finish_success by hand.
teen_respond_from_identified_drug_Finishing(b, ses, message, tags) ==
  IF ses.drug \in {"weed", "lsd"} \/ In("yes", tags)
    THEN Say(ses, "I'm happy to help!")
  ELSE IF In("thanks", tags)
    THEN finish(b, ses, "thanks")
  ELSE finish(b, ses, "success")

teen_respond_from_identified_drug(b, ses, message, tags) ==
  IF ses.drug = "weed"
    THEN IF In("yes", tags)
           THEN Say(ses, "Everyone smokes it now.")
           ELSE Say(ses, "As far as drugs go, that ain't bad!")
  ELSE IF ses.drug = "lsd"
    THEN IF In("yes", tags)
           THEN Say(ses, "Gosh diddly darn.")
           ELSE Say(ses, "Alrighty then!")
  ELSE IF In("yes", tags)
    THEN Say(ses, "I'm happy to help!")
  ELSE IF In("thanks", tags)
    THEN finish_producer(b, "thanks", ses)
  ELSE finish_producer(b, "success", ses)

Yes(tags) == In("yes", tags) \/ In("yep", tags) \/ In("ye", tags)

\* respond_from_common_symptom .. _6 starting over with go_to_state on
\* the default state when the answer is not a yes.
teen_respond_from_common_symptom_BackToDefault(b, ses, tags, asked, next) ==
  IF Yes(tags)
    THEN go_to_state(b, [ses EXCEPT !.drug = asked], "identified_drug")
    ELSE go_to_state(b, ses, default_state(b))

\* respond_from_common_symptom .. respond_from_common_symptom_6: a yes
\* remembers the drug asked about and identifies it, anything else asks
\* the next question.
teen_respond_from_common_symptom(b, ses, tags, asked, next) ==
  IF Yes(tags)
    THEN go_to_state(b, [ses EXCEPT !.drug = asked], "identified_drug")
    ELSE go_to_state(b, ses, next)

\* respond_from_common_symptom_7 that goes back to the default state by
\* hand instead of through finish.
teen_respond_from_common_symptom_7_SilentReset(b, ses, message, tags) ==
  IF Yes(tags)
    THEN go_to_state(b, [ses EXCEPT !.drug = "opioid"], "identified_drug")
    ELSE finish_producer(b, "fail", [ses EXCEPT !.state = default_state(b)])

teen_respond_from_common_symptom_7(b, ses, message, tags) ==
  IF Yes(tags)
    THEN go_to_state(b, [ses EXCEPT !.drug = "opioid"], "identified_drug")
    ELSE finish_producer(b, "fail", ses)

----------------------------------------------------------------------------
(* respond: getattr(self, 'respond_from_' + self.state), then the call.    *)

respond_from(b, ses, message, tags) ==
  IF b = "CsStruggleBot"
    THEN CASE ses.state = "waiting" ->
                cs_respond_from_waiting(b, ses, message, tags)
           [] ses.state = "specific_faculty" ->
                cs_respond_from_specific_faculty(b, ses, message, tags)
           [] ses.state = "unknown_faculty" ->
                cs_respond_from_unknown_faculty(b, ses, message, tags)
           [] ses.state = "unrecognized_faculty" ->
                cs_respond_from_unrecognized_faculty(b, ses, message, tags)
    ELSE CASE ses.state = "waiting" ->
                teen_respond_from_waiting(b, ses, message, tags)
           [] ses.state = "identified_drug" ->
                teen_respond_from_identified_drug(b, ses, message, tags)
           [] ses.state = "common_symptom" ->
                teen_respond_from_common_symptom(b, ses, tags, "weed",
                                                 "common_symptom_2")
           [] ses.state = "common_symptom_2" ->
                teen_respond_from_common_symptom(b, ses, tags, "addy",
                                                 "common_symptom_3")
           [] ses.state = "common_symptom_3" ->
                teen_respond_from_common_symptom(b, ses, tags, "alcohol",
                                                 "common_symptom_4")
           [] ses.state = "common_symptom_4" ->
                teen_respond_from_common_symptom(b, ses, tags, "tobacco",
                                                 "common_symptom_5")
           [] ses.state = "common_symptom_5" ->
                teen_respond_from_common_symptom(b, ses, tags, "cocaine",
                                                 "common_symptom_6")
           [] ses.state = "common_symptom_6" ->
                teen_respond_from_common_symptom(b, ses, tags, "lsd",
                                                 "common_symptom_7")
           [] ses.state = "common_symptom_7" ->
                teen_respond_from_common_symptom_7(b, ses, message, tags)

\* The messages the user types.
Messages ==
  {"hello", "I know", "no", "Yes", "yep", "Thanks!", "thank you",
   "my son is failing", "comp 131", "mobile apps", "senior seminar",
   "office hours", "help me find kathryn", "Justin Li office hours",
   "my kid has red eyes", "a bong and bottles", "hyper and talkative",
   "cough", "smoke", "adderall", "seeing things", "needles"}

\* get_tags over the messages above, computed once for each class.
TagsOfMessages ==
  [b \in Bots |-> [message \in Messages |-> get_tags(b, message)]]

\* respond answering nothing when the state has no respond_from_ method,
\* where getattr raises.
respond_Swallowing(b, ses, message) ==
  IF ~hasattr(b, "respond_from_" \o ses.state)
    THEN Return(ses, None, <<>>)
    ELSE respond_from(b, ses, message, TagsOfMessages[b][message])

respond(b, ses, message) ==
  IF ~hasattr(b, "respond_from_" \o ses.state)
    THEN Raise(ses, NoSuchMethod("respond_from_" \o ses.state), <<>>)
    ELSE respond_from(b, ses, message, TagsOfMessages[b][message])

----------------------------------------------------------------------------
(* The instance and the calls made on it.                                  *)

\* The names go_to_state is called with: the declared states of both
\* classes, the undeclared names CsStruggleBot has producers for, and a
\* name nothing defines.
StateNames ==
  StateSet("CsStruggleBot") \cup StateSet("teendrugbot")
    \cup {"specific_faculty", "unknown_faculty", "unrecognized_faculty",
          "nowhere"}

\* The manners finish is called with: those of the finish_* methods, and
\* one nothing defines.
Manners == {"confused", "location", "success", "fail", "thanks", "abort"}

\* CsStruggleBot.__init__ / teendrugbot.__init__: ChatBot.__init__ sets
\* self.state to the default state, then the class sets its own fields.
Init ==
  /\ bot \in Bots
  /\ state = default_state(bot)
  /\ professor = IF bot = "CsStruggleBot" THEN None ELSE NoAttr
  /\ course = IF bot = "CsStruggleBot" THEN None ELSE NoAttr
  /\ drug = IF bot = "teendrugbot" THEN "unknown" ELSE NoAttr
  /\ last = [op |-> "__init__", arg |-> default_state(bot),
             prev |-> [state |-> NoAttr, professor |-> NoAttr,
                       course |-> NoAttr, drug |-> NoAttr],
             ret |-> None, err |-> NoError, log |-> <<>>]

\* The instance after a call, and the record of the call.
Apply(op, arg, r) ==
  /\ state' = r.ses.state
  /\ professor' = r.ses.professor
  /\ course' = r.ses.course
  /\ drug' = r.ses.drug
  /\ last' = [op |-> op, arg |-> arg, prev |-> Session,
              ret |-> r.ret, err |-> r.err, log |-> r.log]
  /\ UNCHANGED bot

\* chat(): one message of the user answered by respond.
RespondWith(message) ==
  Apply("respond", message, respond(bot, Session, message))

RespondStep == \E message \in Messages : RespondWith(message)

\* A direct call of go_to_state by a user of the class.
GoToStateStep ==
  \E name \in StateNames :
    Apply("go_to_state", name, go_to_state(bot, Session, name))

\* A direct call of finish by a user of the class.
FinishStep ==
  \E manner \in Manners :
    Apply("finish", manner, finish(bot, Session, manner))

\* The chat loop: the instance receives messages only.
Next == RespondStep

Spec == Init /\ [][Next]_vars

\* The class as a library: respond, go_to_state and finish are all called.
NextAPI == RespondStep \/ GoToStateStep \/ FinishStep

SpecAPI == Init /\ [][NextAPI]_vars

----------------------------------------------------------------------------
(* The engine over any class.  A class is its name, its STATES, its TAGS   *)
(* (the class attribute, which _check_tags rewrites) and the names of the  *)
(* methods it defines; ChatBot itself has STATES = [] and TAGS = {}.       *)

ClassOf(b) ==
  [name |-> b, STATES |-> STATES(b), TAGS |-> RawTAGS(b),
   methods |-> Methods(b)]

ChatBot == [name |-> "ChatBot", STATES |-> <<>>, TAGS |-> <<>>, methods |-> {}]

StatesOf(cls) == {cls.STATES[i] : i \in 1..Len(cls.STATES)}

\* An object before __init__ has set anything.
NoInstance ==
  [state |-> NoAttr, professor |-> NoAttr, course |-> NoAttr,
   drug |-> NoAttr]

IndexError == "IndexError: list index out of range"

InvalidTags(got) ==
  "AssertionError: ERROR: Expected tags for {phrase} to be str or "
    \o "List[str] but got " \o got

DefaultWarning(default, first) ==
  "WARNING: The default state " \o default \o " is listed as a state. "
    \o "Perhaps you mean " \o first \o "?"

MissingWarning(name, prefix) ==
  "WARNING: State '" \o name \o "' is defined but has no response "
    \o "function self." \o prefix \o "_" \o name

RECURSIVE Concat(_)
Concat(seqs) ==
  IF seqs = <<>> THEN <<>> ELSE Head(seqs) \o Concat(Tail(seqs))

\* The warnings of one state of _check_states, one for each prefix whose
\* method the class does not define.
check_state(cls, name, prefixes) ==
  LET missing == SelectSeq(prefixes,
                   LAMBDA prefix : (prefix \o "_" \o name) \notin cls.methods)
  IN  [i \in 1..Len(missing) |-> MissingWarning(name, missing[i])]

\* _check_states asking for on_enter_ of the default state as well.
check_states_EveryPrefix(cls, default) ==
  Concat([i \in 1..Len(cls.STATES) |->
            check_state(cls, cls.STATES[i], <<"on_enter", "respond_from">>)])

\* _check_states: the warnings it prints, in order.
check_states(cls, default) ==
  Concat([i \in 1..Len(cls.STATES) |->
            check_state(cls, cls.STATES[i],
                        IF cls.STATES[i] # default
                          THEN <<"on_enter", "respond_from">>
                          ELSE <<"respond_from">>)])

\* self.state = the first of STATES instead of the default state.
initial_state_FirstDeclared(cls, default) ==
  IF cls.STATES = <<>> THEN default ELSE cls.STATES[1]

\* self.default_state = default_state; self.state = self.default_state.
initial_state(cls, default) == default

\* ChatBot.__init__(self, default_state): the class after it, the object
\* as far as it was built, the exception, and what was printed.
ChatBot_init(cls, default) ==
  LET ses == [NoInstance EXCEPT !.state = initial_state(cls, default)]
      printed == check_states(cls, default)
      checked == check_tags(cls.TAGS)
      log ==
        (IF default \in StatesOf(cls) THEN <<>>
         ELSE <<Event("print", DefaultWarning(default, cls.STATES[1]),
                      NoInstance)>>)
          \o [i \in 1..Len(printed) |-> Event("print", printed[i], ses)]
  IN  IF default \notin StatesOf(cls) /\ cls.STATES = <<>>
        THEN [cls |-> cls, ses |-> NoInstance, ret |-> NoReturn,
              err |-> IndexError, log |-> <<>>]
        ELSE [cls |-> [cls EXCEPT !.TAGS = checked.table],
              ses |-> ses,
              ret |-> IF checked.ok THEN None ELSE NoReturn,
              err |-> IF checked.ok THEN NoError ELSE InvalidTags(checked.got),
              log |-> log]

\* The class called: CsStruggleBot() and teendrugbot() pass their default
\* state to ChatBot.__init__ and then set their own fields.
New(cls, default) ==
  LET r == ChatBot_init(cls, default)
  IN  IF r.err # NoError THEN r
      ELSE CASE cls.name = "CsStruggleBot" ->
                  [r EXCEPT !.ses.professor = None, !.ses.course = None]
             [] cls.name = "teendrugbot" ->
                  [r EXCEPT !.ses.drug = "unknown"]
             [] OTHER -> r

\* The first phrase of the table that re.compile rejects, if any.
FirstError(table) ==
  LET bad == {i \in 1..Len(table) : re_error(lower(table[i].phrase)) # NoError}
  IN  IF bad = {} THEN NoError
      ELSE re_error(lower(table[CHOOSE i \in bad : \A j \in bad : i <= j].phrase))

\* The phrases _get_tags finds, one entry of the log for each.
Found(cls, ses, message) ==
  LET found == Matching(cls.TAGS, lower(message))
  IN  [i \in 1..Len(found) |-> Event("match", found[i].phrase, ses)]

\* _get_tags dropping from TAGS each phrase it has found.
ChatBot_get_tags_Consuming(cls, ses, message) ==
  [cls |-> [cls EXCEPT !.TAGS =
              SelectSeq(cls.TAGS,
                LAMBDA e : ~re_search(lower(e.phrase), lower(message)))],
   ses |-> ses, ret |-> count_tags(cls.TAGS, message), err |-> NoError,
   log |-> Found(cls, ses, message)]

\* self._get_tags(message) as a call: the Counter, or the re.error of the
\* first phrase that does not compile.
ChatBot_get_tags(cls, ses, message) ==
  IF FirstError(cls.TAGS) # NoError
    THEN [cls |-> cls, ses |-> ses, ret |-> NoReturn,
          err |-> FirstError(cls.TAGS), log |-> <<>>]
    ELSE [cls |-> cls, ses |-> ses, ret |-> count_tags(cls.TAGS, message),
          err |-> NoError, log |-> Found(cls, ses, message)]

----------------------------------------------------------------------------
(* Classes built on the engine, constructed and asked for the tags of      *)
(* messages: the two of the repository, ChatBot itself, and subclasses     *)
(* with one or two states, any of their methods, and one of four tables.   *)

Entry(phrase, kind, val) ==
  [phrase |-> phrase, tags |-> [kind |-> kind, val |-> val]]

\* Words and word groups, with tags as a string, a list and a tuple.
Words ==
  <<S("no", "no"),
    Entry("red eyes", "list", <<"weed">>),
    Entry("bong", "list", <<"weed", "weed">>),
    Entry("hyper", "tuple", <<"cocaine", "addy">>),
    S("thanks", "thanks"),
    S("thanks!", "thanks"),
    S("Yes", "yes")>>

\* Phrases that hold characters re gives a meaning to.
Patterns ==
  <<S("a.m", "morning"), S("c+", "grade"), S("no", "no")>>

\* A phrase that is not a regular expression.
Unbalanced ==
  <<S("help", "office-hours"), S("(help", "office-hours")>>

\* A value that is neither a string nor a list nor a tuple.
Shapes ==
  <<S("no", "no"), Entry("pills", "NoneType", None), S("later", "late")>>

Subclasses ==
  {[name |-> "Subclass", STATES |-> states, TAGS |-> table,
    methods |-> methods] :
     states \in {<<"idle">>, <<"idle", "ask">>},
     table \in {Words, Patterns, Unbalanced, Shapes},
     methods \in SUBSET {"respond_from_idle", "on_enter_idle",
                         "respond_from_ask", "on_enter_ask"}}

Classes == {ClassOf(b) : b \in Bots} \cup {ChatBot} \cup Subclasses

\* The default state a class is constructed with.
DefaultArgs(cls) ==
  IF cls.name \in Bots THEN {default_state(cls.name)}
  ELSE {"idle", "ask", "home"}

EngineMessages ==
  {"no", "I know", "no no", "Thanks!", "thanks a lot", "red eyes",
   "a bong", "red eyes and a bong", "hyper", "YES", "at 9 a.m", "aim",
   "cc", "help"}

\* The class statement: no object yet.
InitEngine ==
  /\ bot \in Classes
  /\ state = NoAttr
  /\ professor = NoAttr
  /\ course = NoAttr
  /\ drug = NoAttr
  /\ last = [op |-> "class", arg |-> bot.name, prev |-> NoInstance,
             ret |-> None, err |-> NoError, log |-> <<>>]

\* A call on the class or on its latest object.
ApplyEngine(op, arg, r, ses) ==
  /\ bot' = r.cls
  /\ state' = ses.state
  /\ professor' = ses.professor
  /\ course' = ses.course
  /\ drug' = ses.drug
  /\ last' = [op |-> op, arg |-> arg, prev |-> Session,
              ret |-> r.ret, err |-> r.err, log |-> r.log]

\* An object is constructed; when __init__ raises, the caller gets none
\* and the object it had stays.
NewStep ==
  \E default \in DefaultArgs(bot) :
    LET r == New(bot, default)
    IN  ApplyEngine("__init__", default, r,
                    IF r.err = NoError THEN r.ses ELSE Session)

\* _get_tags called on the object.
GetTagsStep ==
  /\ state # NoAttr
  /\ \E message \in EngineMessages :
       LET r == ChatBot_get_tags(bot, Session, message)
       IN  ApplyEngine("_get_tags", message, r, r.ses)

NextEngine == NewStep \/ GetTagsStep

SpecEngine == InitEngine /\ [][NextEngine]_vars

----------------------------------------------------------------------------
(* Properties.                                                             *)

EventsOf(log, evs) == SelectSeq(log, LAMBDA e : e.ev \in evs)

\* The go_to_state and finish calls of a log.
TransitionCalls(log) == EventsOf(log, {"go_to_state", "finish"})

NoProducerRan(log) == EventsOf(log, {"on_enter"}) = <<>>

Default == default_state(bot)

\* C1: in both bots every respond call that returns a string has made
\* exactly one transition call, go_to_state(name) or finish(manner).
C1_ExactlyOneTransitionCall ==
  (last.op = "respond" /\ last.err = NoError)
    => Len(TransitionCalls(last.log)) = 1

\* C2: finish(manner) with a manner some finish_* method is defined for
\* leaves the current state equal to the default state, whatever the state
\* and the scratch fields it is called with.
C2_FinishAlwaysResets ==
  (last.op = "finish" /\ hasattr(bot, "finish_" \o last.arg))
    => state = Default

\* C3: go_to_state(default_state) fails with the InvalidTransition
\* assertion, runs no on-enter producer and leaves the current state as it
\* was, from every current state.
C3_GoToDefaultFails ==
  (/\ last.op = "go_to_state"
   /\ last.arg = Default
   /\ Default \in StateSet(bot))
    => /\ last.err = InvalidTransition
       /\ last.ret = NoReturn
       /\ NoProducerRan(last.log)
       /\ state = last.prev.state

C3_Witness ==
  /\ last.op = "go_to_state"
  /\ last.arg = Default
  /\ last.prev.state # Default
  /\ last.err = InvalidTransition

\* C4: a go_to_state call (made directly or by a respond_from method) whose
\* name is not in STATES fails with the UnknownState assertion before any
\* on-enter producer runs and leaves the current state as it was, also
\* when the class defines on_enter_<name>.
C4_UnknownStateFails ==
  \A i \in DOMAIN last.log :
    (last.log[i].ev = "go_to_state" /\ last.log[i].arg \notin StateSet(bot))
      => /\ last.err = UnknownState(last.log[i].arg)
         /\ last.ret = NoReturn
         /\ NoProducerRan(last.log)
         /\ state = last.log[i].at

C4_Witness ==
  /\ last.op = "go_to_state"
  /\ last.arg \notin StateSet(bot)
  /\ hasattr(bot, "on_enter_" \o last.arg)
  /\ last.prev.state # Default
  /\ last.err = UnknownState(last.arg)

\* C5: go_to_state(name) with a declared, non-default name whose on-enter
\* producer exists and returns ends with the current state equal to name
\* and returns exactly the producer's text.
C5_GoToStateEffect ==
  (/\ last.op = "go_to_state"
   /\ last.arg \in StateSet(bot) \ {Default}
   /\ hasattr(bot, "on_enter_" \o last.arg)
   /\ on_enter(bot, last.arg, last.prev).err = NoError)
    => /\ last.err = NoError
       /\ state = last.arg
       /\ last.ret = on_enter(bot, last.arg, last.prev).ret

C5_Witness ==
  /\ last.op = "go_to_state"
  /\ last.arg = "identified_drug"
  /\ last.prev.state = "common_symptom_3"
  /\ last.prev.drug = "unknown"
  /\ state = "identified_drug"
  /\ last.ret = finish_fail_text(bot)

\* C6: the on-enter producer runs while the current state is still the
\* state before the call, and when a go_to_state(name) call has finished
\* the current state is name (the call returned) or the state before the
\* call (it raised): no other value is seen.
C6_TransitionAtomic ==
  \A i \in DOMAIN last.log :
    /\ last.log[i].ev = "on_enter" => last.log[i].at = last.prev.state
    /\ last.log[i].ev = "go_to_state"
         => /\ last.log[i].at = last.prev.state
            /\ IF last.err = NoError
                 THEN state = last.log[i].arg
                 ELSE state = last.prev.state

C6_Witness ==
  /\ last.op = "respond"
  /\ last.err = NoError
  /\ \E i \in DOMAIN last.log :
       /\ last.log[i].ev = "on_enter"
       /\ last.log[i].at = last.prev.state
       /\ last.log[i].arg = state
  /\ state # last.prev.state

\* C7: a finish call whose manner has no finish_* method fails with a
\* missing-method error and leaves the current state as it was (it is not
\* reset to the default state).
C7_UnknownMannerFails ==
  \A i \in DOMAIN last.log :
    (last.log[i].ev = "finish"
       /\ ~hasattr(bot, "finish_" \o last.log[i].arg))
      => /\ last.err = NoSuchMethod("finish_" \o last.log[i].arg)
         /\ last.ret = NoReturn
         /\ state = last.log[i].at
         /\ state = last.prev.state

C7_Witness ==
  /\ last.op = "finish"
  /\ ~hasattr(bot, "finish_" \o last.arg)
  /\ last.prev.state # Default
  /\ state = last.prev.state
  /\ last.err = NoSuchMethod("finish_" \o last.arg)

\* C8: every state the engine reaches from the initial state through the
\* transitions of respond has a respond_from method, so that respond never
\* fails on looking up the handler of the current state.
C8_HandlerExists == hasattr(bot, "respond_from_" \o state)

\* The sessions an instance of class b can be in.
SessionsOf(b) ==
  IF b = "CsStruggleBot"
    THEN {[state |-> s, professor |-> p, course |-> None, drug |-> NoAttr] :
            s \in StateNames,
            p \in {None} \cup {PROFESSORS[i] : i \in 1..Len(PROFESSORS)}}
    ELSE {[state |-> s, professor |-> NoAttr, course |-> NoAttr, drug |-> d] :
            s \in StateNames,
            d \in {"unknown", "weed", "addy", "alcohol", "tobacco",
                   "cocaine", "lsd", "opioid"}}

\* One message brings ses back to the default state through finish.
RestartsAtOnce(b, ses) ==
  \E message \in Messages :
    LET r == respond(b, ses, message) IN
    /\ r.err = NoError
    /\ r.ses.state = default_state(b)
    /\ EventsOf(r.log, {"finish"}) # <<>>

\* `from` and the sessions from which some sequence of messages leads
\* into it.
RECURSIVE LeadingTo(_, _)
LeadingTo(b, from) ==
  LET more == from \cup {ses \in SessionsOf(b) :
                           \E message \in Messages :
                             respond(b, ses, message).ses \in from}
  IN  IF more = from THEN from ELSE LeadingTo(b, more)

\* The sessions from which some finite sequence of messages ends with a
\* return to the default state through finish.
CanRestart ==
  [b \in Bots |->
     LeadingTo(b, {ses \in SessionsOf(b) : RestartsAtOnce(b, ses)})]

\* C9: there is no terminal state: from every session a conversation
\* reaches, some finite sequence of messages brings the current state back
\* to the default state through finish.
C9_CanAlwaysRestart == Session \in CanRestart[bot]

\* C10: the default state is never reached silently: a call before which
\* the current state was not the default state and after which it is, is a
\* finish call, or a respond that made one, with a manner a finish_* method
\* is defined for, and it returned.
C10_NeverReachedSilently ==
  (last.op # "__init__" /\ last.prev.state # Default /\ state = Default)
    => /\ last.err = NoError
       /\ \E i \in DOMAIN last.log :
            /\ last.log[i].ev = "finish"
            /\ hasattr(bot, "finish_" \o last.log[i].arg)

C10_Witness ==
  /\ last.op = "finish"
  /\ last.prev.state # Default
  /\ state = Default
  /\ last.err = NoError

\* C11: the fields of the session change only through go_to_state and
\* finish: a respond call in which no go_to_state and no finish call
\* returns leaves the current state, professor, course and drug as they
\* were before the call.
C11_OnlyTransitionsMutate ==
  (last.op = "respond"
     /\ (last.err # NoError \/ TransitionCalls(last.log) = <<>>))
    => Session = last.prev

\* C12: immediately after construction the current state is the default
\* state the constructor was given, 'waiting' for CsStruggleBot and for
\* teendrugbot.
C12_StartsInDefault ==
  (last.op = "__init__" /\ last.err = NoError)
    => /\ state = last.arg
       /\ bot.name \in Bots => state = "waiting"

C12_Witness ==
  /\ last.op = "__init__"
  /\ last.err = NoError
  /\ bot.name = "teendrugbot"
  /\ state = "waiting"

\* A _get_tags call that returned: last.ret is its Counter, last.log the
\* phrases it found in last.arg.
GotTags == last.op = "_get_tags" /\ last.err = NoError

Matched(phrase) ==
  \E j \in DOMAIN last.log :
    last.log[j].ev = "match" /\ last.log[j].arg = phrase

\* The characters of phrase stand in msg from position i on.
TextAt(phrase, msg, i) ==
  /\ i + Len(phrase) - 1 <= Len(msg)
  /\ SubSeq(msg, i, i + Len(phrase) - 1) = phrase

\* phrase stands in msg at position i as a whole word: what precedes it
\* and what follows it is an end of msg or a character that is not a
\* letter, a digit or an underscore.
WholeWordAt(phrase, msg, i) ==
  /\ TextAt(phrase, msg, i)
  /\ i = 1 \/ Char(msg, i - 1) \notin WordChars
  /\ \/ i + Len(phrase) > Len(msg)
     \/ Char(msg, i + Len(phrase)) \notin WordChars

Occurrences(phrase, msg) ==
  {i \in 1..Len(msg) : WholeWordAt(lower(phrase), lower(msg), i)}

\* C13: tag extraction counts repeated occurrences: when a phrase of the
\* table stands in the message as a whole word at k positions, the count
\* of each tag of that phrase is k at least.
C13_CountsEveryOccurrence ==
  GotTags =>
    \A i \in DOMAIN bot.TAGS :
      \A j \in DOMAIN bot.TAGS[i].tags.val :
        CopiesIn(bot.TAGS[i].tags.val[j], last.ret)
          >= Cardinality(Occurrences(bot.TAGS[i].phrase, last.arg))

\* A phrase in which re reads every character as itself.
Literal(phrase) ==
  \A i \in 1..Len(phrase) : Char(phrase, i) \notin {".", "*", "+", "(", ")"}

\* C14: matching is by whole words, without regard to case: a phrase of
\* the table is found in a message exactly when it stands in it somewhere
\* (at the start, inside, at the end, or as the whole message) between
\* ends of the message or characters that are not word characters; a
\* phrase that stands only inside a larger word is not found.
C14_WholeWordMatching ==
  GotTags =>
    \A i \in DOMAIN bot.TAGS :
      Literal(bot.TAGS[i].phrase) =>
        (Matched(bot.TAGS[i].phrase)
           <=> Occurrences(bot.TAGS[i].phrase, last.arg) # {})

\* The places of tag in the tag sequences of the phrases found.
Carried(tag) ==
  UNION {{<<i, j>> : j \in {j \in DOMAIN bot.TAGS[i].tags.val :
                              bot.TAGS[i].tags.val[j] = tag}} :
           i \in {i \in DOMAIN bot.TAGS : Matched(bot.TAGS[i].phrase)}}

TagsOfTable ==
  UNION {{bot.TAGS[i].tags.val[j] : j \in DOMAIN bot.TAGS[i].tags.val} :
           i \in DOMAIN bot.TAGS}

C16_PhrasesAreLiteral ==
  last.op = "_get_tags" =>
    /\ last.err = NoError
    /\ \A i \in DOMAIN bot.TAGS :
         Matched(bot.TAGS[i].phrase) =>
           \E k \in 1..Len(last.arg) :
             TextAt(lower(bot.TAGS[i].phrase), lower(last.arg), k)

\* C17: tag extraction is pure: a _get_tags call changes neither the
\* phrase table (nor anything else of the class) nor the session, and a
\* call with the message of the call before it returns the same counts.
C17_GetTagsIsPure ==
  [][last'.op = "_get_tags" =>
       /\ bot' = bot
       /\ Session' = Session
       /\ (last.op = "_get_tags" /\ last.arg = last'.arg)
            => last'.ret = last.ret]_vars

C17_Witness ==
  /\ GotTags
  /\ last.arg = "red eyes"
  /\ BagIn("weed", last.ret)

\* Every value of the table is a string, a list or a tuple.
WellShaped ==
  \A i \in DOMAIN bot.TAGS : bot.TAGS[i].tags.kind \in {"str", "list", "tuple"}

Printed(text) ==
  {j \in DOMAIN last.log : last.log[j].ev = "print" /\ last.log[j].arg = text}

\* Some line printed begins with the warning about the default state.
WarnedAboutDefault ==
  LET start == "WARNING: The default state " \o last.arg
  IN  \E j \in DOMAIN last.log :
        /\ last.log[j].ev = "print"
        /\ Len(last.log[j].arg) >= Len(start)
        /\ SubSeq(last.log[j].arg, 1, Len(start)) = start

\* C18: when the default state is not one of STATES (whatever STATES is,
\* the empty list included) and the table is well shaped, construction
\* prints a warning and succeeds: there is an object, and its current
\* state is that default state.
C18_WarnsAndSucceeds ==
  (last.op = "__init__" /\ last.arg \notin StatesOf(bot) /\ WellShaped)
    => /\ last.err = NoError
       /\ state = last.arg
       /\ WarnedAboutDefault

\* The (state, prefix) pairs _check_states is to warn about: a state of
\* STATES without its respond_from_ method, or, when it is not the default
\* state, without its on_enter_ method.
MissingPairs ==
  {pair \in StatesOf(bot) \X {"on_enter", "respond_from"} :
     /\ (pair[2] \o "_" \o pair[1]) \notin bot.methods
     /\ pair[2] = "respond_from" \/ pair[1] # last.arg}

\* C19: construction prints exactly one warning for each missing (state,
\* prefix) pair and none for any other pair (on_enter_ of the default
\* state is not asked for), and the warnings, however many, do not make
\* construction fail.
C19_OneWarningForEachMissing ==
  last.op = "__init__" =>
    /\ last.err # IndexError =>
         /\ \A pair \in StatesOf(bot) \X {"on_enter", "respond_from"} :
              Cardinality(Printed(MissingWarning(pair[1], pair[2])))
                = IF pair \in MissingPairs THEN 1 ELSE 0
         /\ Len(last.log) = Cardinality(MissingPairs)
                              + (IF WarnedAboutDefault THEN 1 ELSE 0)
    /\ (bot.STATES # <<>> /\ WellShaped) => last.err = NoError

C19_Witness ==
  /\ last.op = "__init__"
  /\ last.err = NoError
  /\ bot.name = "CsStruggleBot"
  /\ Printed(MissingWarning("unknown_problem", "on_enter")) # {}
  /\ Printed(MissingWarning("spring2018", "respond_from")) # {}
  /\ Printed(MissingWarning("waiting", "on_enter")) = {}
  /\ Cardinality(MissingPairs) > Len(bot.STATES)

\* The table with each bare string made a one-element list.
Listed(table) ==
  [i \in DOMAIN table |->
     IF table[i].tags.kind = "str"
       THEN Entry(table[i].phrase, "list", <<table[i].tags.val>>)
       ELSE table[i]]

\* C20: after a construction that succeeds every value of the table is a
\* list or a tuple of tags; the table is the one before it with each bare
\* string t made [t], so that t and [t] give the same table and the same
\* extraction; and normalizing again changes nothing: a second
\* construction over the table leaves it as it is.
C20_TagsNormalized ==
  [][(last'.op = "__init__" /\ last'.err = NoError) =>
       /\ \A i \in DOMAIN bot'.TAGS :
            bot'.TAGS[i].tags.kind \in {"list", "tuple"}
       /\ bot'.TAGS = Listed(bot.TAGS)
       /\ (\A i \in DOMAIN bot.TAGS : bot.TAGS[i].tags.kind # "str")
            => bot'.TAGS = bot.TAGS]_vars

C20_Witness ==
  /\ last.op = "__init__"
  /\ last.err = NoError
  /\ last.prev.state # NoAttr
  /\ bot.TAGS = Listed(Words)

\* The class of the first value of the table that is neither a string nor
\* a list nor a tuple.
FirstMisshapen ==
  LET bad == {i \in DOMAIN bot.TAGS :
                bot.TAGS[i].tags.kind \notin {"str", "list", "tuple"}}
  IN  bot.TAGS[CHOOSE i \in bad : \A j \in bad : i <= j].tags.kind

\* C21: a value of the table that is neither a string nor a list nor a
\* tuple makes construction fail: __init__ raises the AssertionError of
\* _check_tags, and no object of the class comes to exist.
C21_MisshapenTagsFail ==
  (last.op = "__init__" /\ ~WellShaped)
    => /\ last.err = InvalidTags(FirstMisshapen)
       /\ last.ret = NoReturn
       /\ state = NoAttr

C21_Witness ==
  /\ last.op = "__init__"
  /\ bot.TAGS = <<Entry("no", "list", <<"no">>),
                  Entry("pills", "NoneType", None), S("later", "late")>>
  /\ last.err = InvalidTags("NoneType")
  /\ state = NoAttr

\* C22: in the default state a message in which no phrase of the table is
\* found is answered with a string, without an exception: CsStruggleBot
\* returns the text of finish('confused') and stays in 'waiting',
\* teendrugbot returns the question of 'common_symptom' and enters it.
C22_NoTagsAnswered ==
  (last.op = "respond" /\ last.prev.state = Default
     /\ BagToSet(TagsOfMessages[bot][last.arg]) = {})
    => /\ last.err = NoError
       /\ bot = "CsStruggleBot" =>
            last.ret = finish_confused_text /\ state = "waiting"
       /\ bot = "teendrugbot" =>
            /\ last.ret = on_enter_text("common_symptom")
            /\ state = "common_symptom"

C22_Witness ==
  /\ last.op = "respond"
  /\ last.arg = "hello"
  /\ last.prev.state = Default
  /\ bot = "teendrugbot"
  /\ state = "common_symptom"
  /\ last.ret = on_enter_text("common_symptom")

EnteredFromWaiting == {"failing", "specific_class", "spring2018"}

TestedBeforeOfficeHours ==
  {"failing", "intro", "mathematica", "data structures",
   "computer organization", "algorithms analysis", "hci", "mobile apps",
   "information theory", "practicum", "junior seminar"}

\* The states CsStruggleBot has methods for but does not declare.
Undeclared == {"specific_faculty", "unknown_faculty", "unrecognized_faculty"}

Place(name) ==
  CHOOSE i \in 1..Len(STATES("teendrugbot")) : STATES("teendrugbot")[i] = name

C27_TeenNeverRaises ==
  (bot = "teendrugbot" /\ last.op = "respond") =>
    /\ last.err = NoError
    /\ last.ret # NoReturn
    /\ hasattr(bot, "respond_from_" \o last.prev.state)
    /\ \A i \in DOMAIN last.log :
         /\ last.log[i].ev = "go_to_state" =>
              /\ last.log[i].arg \in StateSet(bot) \ {Default}
              /\ hasattr(bot, "on_enter_" \o last.log[i].arg)
         /\ last.log[i].ev = "finish" =>
              hasattr(bot, "finish_" \o last.log[i].arg)

C27_Witness ==
  /\ bot = "teendrugbot"
  /\ last.op = "respond"
  /\ last.prev.state = "common_symptom_6"
  /\ state = "common_symptom_7"
  /\ last.err = NoError
  /\ \E i \in DOMAIN last.log :
       last.log[i].ev = "go_to_state" /\ last.log[i].arg = "common_symptom_7"

\* The drugs teendrugbot identifies.
Identified ==
  {"weed", "addy", "alcohol", "tobacco", "cocaine", "lsd", "opioid"}

\* C28: in teendrugbot, whenever the current state is 'identified_drug'
\* the drug remembered is one of weed, addy, alcohol, tobacco, cocaine,
\* lsd and opioid, never 'unknown'; the drug becomes 'opioid' only in a
\* respond call made in 'common_symptom_7' with a yes tag, and that call
\* returns the text of finish_fail although the state becomes
\* 'identified_drug'.
C28_DrugIsIdentified ==
  bot = "teendrugbot" =>
    /\ state = "identified_drug" => drug \in Identified
    /\ (drug = "opioid" /\ last.prev.drug # "opioid")
         => /\ last.op = "respond"
            /\ last.prev.state = "common_symptom_7"
            /\ Yes(TagsOfMessages[bot][last.arg])
            /\ last.err = NoError
            /\ last.ret = finish_fail_text(bot)
            /\ state = "identified_drug"

C28_Witness ==
  /\ bot = "teendrugbot"
  /\ drug = "opioid"
  /\ last.prev.drug = "unknown"
  /\ last.prev.state = "common_symptom_7"
  /\ state = "identified_drug"
  /\ last.ret = finish_fail_text(bot)

\* C29: in an engine whose default state is one of its STATES, the current
\* state is one of STATES in every state reached by respond, go_to_state
\* and finish calls, in any order, those that raise included.
C29_StateIsDeclared ==
  default_state(bot) \in StateSet(bot) => state \in StateSet(bot)

C29_Witness ==
  /\ last.op = "go_to_state"
  /\ last.arg = "nowhere"
  /\ last.err = UnknownState("nowhere")
  /\ state \in StateSet(bot) \ {Default}

====
